---- MODULE Spec2Model ----
(***************************************************************************)
(* A model of the Playfair cipher engine of src/src/lib.rs:                *)
(*   PlayfairCipher::new              key -> (positions, letters)          *)
(*   PlayfairCipher::encode / decode  text -> Result<String, FromUtf8Error>*)
(*   PlayfairCipher::encode_or_decode_pair                                 *)
(* Bytes are numbers 0..255, a string is the sequence of its UTF-8 bytes.  *)
(* Rust's 0-based arrays `positions` and `letters` are functions on 0..24  *)
(* and 0..63; the Vec `result` is a 1-based sequence, so an index held in  *)
(* `last_pos` is the Rust index plus one and 0 stands for None.            *)
(***************************************************************************)
EXTENDS Integers, Sequences, FiniteSets, TLC

VARIABLES
    key,        \* the key the engine is built from (bytes)
    positions,  \* self.positions : [u8; 25]
    letters,    \* self.letters   : [u8; 64]
    phase,      \* where the program is: inside new() ("key", "fill", "border") or "ready"
    pos,        \* new(): the cursor (row, col)
    idx,        \* new(): bytes of the key consumed / alphabet indices swept
    op,         \* the last call on the engine: "none", "encode", "decode", "roundtrip", "pair"
    plain,      \* roundtrip: the text that was encoded before the decode
    text,       \* the input of the last encode/decode call
    result,     \* what the last call returned: [ok, bytes]
    pa, pb,     \* the arguments of the last encode_or_decode_pair call
    pout        \* what the last encode_or_decode_pair call returned

vars == <<key, positions, letters, phase, pos, idx, op, plain, text, result, pa, pb, pout>>

----------------------------------------------------------------------------
(* Bounds of the model. *)

\* longest generated key, in bytes
MaxKeyLen == 2
\* longest generated text, in characters
MaxLen == 3
\* longest generated text of letters only, in letters
MaxLetters == 4

----------------------------------------------------------------------------
(* Program constants. *)

\* const X_INDEX: u8 = b'x' - b'a' - 1
X_INDEX == 120 - 97 - 1
\* const IJ_INDEX: u8 = b'i' - b'a'
IJ_INDEX == 105 - 97
\* the "unassigned" marker of positions, 255u8
UNASSIGNED == 255
\* b'a', b'i', b'j', b'x', b'z'
LowerA == 97
LowerI == 105
LowerJ == 106
LowerX == 120
LowerZ == LowerA + 25

\* u8::wrapping_sub
wrapping_sub(x, y) == (x + 256 - y) % 256

\* pos & 7 and pos & 0o70 on a u8
And7(p) == p % 8
And70(p) == ((p \div 8) % 8) * 8

----------------------------------------------------------------------------
(* PlayfairCipher::new *)

\* the locals of new() before the first loop
NewInit == [positions |-> [i \in 0..24 |-> UNASSIGNED],
            letters   |-> [p \in 0..63 |-> 0],
            pos       |-> <<1, 1>>]

\* "Go to next valid pos": pos.1 += 1; if pos.1 == 6 { pos = (pos.0 + 1, 1) }
\* variant: the column wraps one cell too late
AdvanceWrapAt7(p) == IF p[2] + 1 = 7 THEN <<p[1] + 1, 1>> ELSE <<p[1], p[2] + 1>>
Advance(p) == IF p[2] + 1 = 6 THEN <<p[1] + 1, 1>> ELSE <<p[1], p[2] + 1>>

\* pos.0 * 8 + pos.1
EncodedPos(p) == p[1] * 8 + p[2]

\* the letter index of a key byte
KeyLetterIndex(letter) ==
    IF letter < LowerJ THEN wrapping_sub(letter, LowerA)
                       ELSE wrapping_sub(letter, LowerA + 1)

\* the byte the first loop stores for a key letter
\* variant: a key's 'j' is stored as 'j'
KeyStoredNoMerge(letter) == letter
KeyStored(letter) == IF letter = LowerJ THEN LowerI ELSE letter

\* one iteration of the first loop (over the bytes of the key)
KeyStep(st, letter) ==
    LET letter_index == KeyLetterIndex(letter) IN
    IF letter_index >= 25 THEN st
    ELSE IF st.positions[letter_index] # UNASSIGNED THEN st
    ELSE LET encoded_pos == EncodedPos(st.pos) IN
         [positions |-> [st.positions EXCEPT ![letter_index] = encoded_pos],
          letters   |-> [st.letters EXCEPT ![encoded_pos] = KeyStored(letter)],
          pos       |-> Advance(st.pos)]

\* the byte the second loop stores for an alphabet index
FillLetter(letter_index) ==
    IF letter_index <= IJ_INDEX THEN letter_index + LowerA
                                ELSE letter_index + LowerA + 1

\* one iteration of the second loop (over the alphabet indices 0..24)
FillStep(st, letter_index) ==
    IF st.positions[letter_index] # UNASSIGNED THEN st
    ELSE LET encoded_pos == EncodedPos(st.pos) IN
         [positions |-> [st.positions EXCEPT ![letter_index] = encoded_pos],
          letters   |-> [st.letters EXCEPT ![encoded_pos] = FillLetter(letter_index)],
          pos       |-> Advance(st.pos)]

\* the two border loops: rows 1..5 first, then columns 0..6 (corners come from
\* the cells the row loop has just written)
\* variant: only the row loop of the border runs
BorderRowsOnly(l) ==
    [p \in 0..63 |->
        IF (p \div 8) \in 1..5 /\ And7(p) = 0 THEN l[p + 5]
        ELSE IF (p \div 8) \in 1..5 /\ And7(p) = 6 THEN l[p - 5]
        ELSE l[p]]
Border(l) ==
    LET l1 == [p \in 0..63 |->
                  IF (p \div 8) \in 1..5 /\ And7(p) = 0 THEN l[p + 5]
                  ELSE IF (p \div 8) \in 1..5 /\ And7(p) = 6 THEN l[p - 5]
                  ELSE l[p]]
    IN [p \in 0..63 |->
          IF p \in 0..6 THEN l1[p + 5 * 8]
          ELSE IF p \in (6 * 8)..(6 * 8 + 6) THEN l1[p - 5 * 8]
          ELSE l1[p]]

RECURSIVE KeyRun(_, _, _, _)
\* the locals after iterations lo..hi of the first loop, entered with the locals st.
\* The range is halved so that the evaluation stays shallow; `st = st` is TRUE
\* and only makes TLC evaluate st before it descends.
KeyRun(st, k, lo, hi) ==
    IF lo > hi \/ st # st THEN st
    ELSE IF lo = hi THEN KeyStep(st, k[lo])
    ELSE LET mid == (lo + hi) \div 2 IN KeyRun(KeyRun(st, k, lo, mid), k, mid + 1, hi)

\* the locals after the first n bytes of the key
KeyLoop(k, n) == KeyRun(NewInit, k, 1, n)

RECURSIVE FillRun(_, _, _)
\* the locals after iterations lo..hi (alphabet indices) of the second loop
FillRun(st, lo, hi) ==
    IF lo > hi \/ st # st THEN st
    ELSE IF lo = hi THEN FillStep(st, lo)
    ELSE LET mid == (lo + hi) \div 2 IN FillRun(FillRun(st, lo, mid), mid + 1, hi)

\* the locals after the second loop has swept the indices 0..n-1
FillLoop(k, n) == FillRun(KeyLoop(k, Len(k)), 0, n - 1)

\* PlayfairCipher::new(key)
new(k) == LET st == FillLoop(k, 25) IN
          [positions |-> st.positions, letters |-> Border(st.letters)]

----------------------------------------------------------------------------
(* PlayfairCipher::encode_or_decode_pair *)

\* self.letters[p as usize]; an index outside the table panics
PANIC == -1
Lookup(p) == IF p \in 0..63 THEN letters[p] ELSE PANIC

\* the branches taken when pos_a # pos_b: same column, same row, rectangle
\* variant: decode steps the same way as encode
PairRulesNoDecode(a, b, is_encode) ==
    LET pos_a == positions[a]
        pos_b == positions[b]
    IN  IF And7(pos_a) = And7(pos_b)
        THEN <<Lookup(pos_a + 8), Lookup(pos_b + 8)>>
        ELSE IF And70(pos_a) = And70(pos_b)
        THEN <<Lookup(pos_a + 1), Lookup(pos_b + 1)>>
        ELSE <<Lookup(And70(pos_a) + And7(pos_b)), Lookup(And70(pos_b) + And7(pos_a))>>
\* variant: the rectangle takes the other letter's row and its own column
PairRulesSwapped(a, b, is_encode) ==
    LET pos_a == positions[a]
        pos_b == positions[b]
    IN  IF And7(pos_a) = And7(pos_b)
        THEN IF is_encode THEN <<Lookup(pos_a + 8), Lookup(pos_b + 8)>>
                          ELSE <<Lookup(pos_a - 8), Lookup(pos_b - 8)>>
        ELSE IF And70(pos_a) = And70(pos_b)
        THEN IF is_encode THEN <<Lookup(pos_a + 1), Lookup(pos_b + 1)>>
                          ELSE <<Lookup(pos_a - 1), Lookup(pos_b - 1)>>
        ELSE <<Lookup(And70(pos_b) + And7(pos_a)), Lookup(And70(pos_a) + And7(pos_b))>>
PairRules(a, b, is_encode) ==
    LET pos_a == positions[a]
        pos_b == positions[b]
    IN  IF And7(pos_a) = And7(pos_b)
        THEN \* same column
             IF is_encode THEN <<Lookup(pos_a + 8), Lookup(pos_b + 8)>>
                          ELSE <<Lookup(pos_a - 8), Lookup(pos_b - 8)>>
        ELSE IF And70(pos_a) = And70(pos_b)
        THEN \* same row
             IF is_encode THEN <<Lookup(pos_a + 1), Lookup(pos_b + 1)>>
                          ELSE <<Lookup(pos_a - 1), Lookup(pos_b - 1)>>
        ELSE LET pos_c == And70(pos_a) + And7(pos_b)    \* (pos_a & 0o70) | (pos_b & 7)
                 pos_d == And70(pos_b) + And7(pos_a)
             IN  <<Lookup(pos_c), Lookup(pos_d)>>

RECURSIVE encode_or_decode_pair(_, _, _)
encode_or_decode_pair(a, b, is_encode) ==
    IF positions[a] = positions[b]
    THEN IF a = X_INDEX
         THEN <<a, b>>      \* the indices themselves, not letters
         ELSE encode_or_decode_pair(a, X_INDEX, is_encode)
    ELSE PairRules(a, b, is_encode)

----------------------------------------------------------------------------
(* PlayfairCipher::encode_or_decode *)

\* a byte the loop treats as a cipher letter: c.wrapping_sub(b'a') < 26
IsLetterByte(c) == wrapping_sub(c, LowerA) < 26

\* the I/J-merged alphabet index of a letter byte
TextLetterIndex(c) ==
    LET letter_index == wrapping_sub(c, LowerA) IN
    IF letter_index <= IJ_INDEX THEN letter_index ELSE letter_index - 1

\* result[pos] = v
SetAt(s, i, v) == [s EXCEPT ![i] = v]

\* the locals before the loop: result empty, last_pos None
TokInit == [result |-> <<>>, last_pos |-> 0]

\* one iteration of `for &c in text.as_bytes()`
\* variant: a doubled letter is consumed as the second letter of the pair
TokStepDropDoubled(st, c, is_encode) ==
    IF ~IsLetterByte(c)
    THEN [st EXCEPT !.result = Append(@, c)]
    ELSE LET letter_index == TextLetterIndex(c)
             p == st.last_pos
         IN  IF p # 0
             THEN LET ab == encode_or_decode_pair(st.result[p], letter_index, is_encode)
                  IN  [result   |-> Append(SetAt(st.result, p, ab[1]), ab[2]),
                       last_pos |-> 0]
             ELSE [result   |-> Append(st.result, letter_index),
                   last_pos |-> Len(st.result) + 1]
\* variant: the second letter is written right after the first
TokStepOverwriteNext(st, c, is_encode) ==
    IF ~IsLetterByte(c)
    THEN [st EXCEPT !.result = Append(@, c)]
    ELSE LET letter_index == TextLetterIndex(c)
             p == st.last_pos
         IN  IF p # 0 /\ st.result[p] # letter_index
             THEN LET ab == encode_or_decode_pair(st.result[p], letter_index, is_encode)
                      r  == SetAt(st.result, p, ab[1])
                  IN  [result   |-> IF p < Len(r) THEN SetAt(r, p + 1, ab[2])
                                                  ELSE Append(r, ab[2]),
                       last_pos |-> 0]
             ELSE IF p # 0
             THEN LET ab == encode_or_decode_pair(st.result[p], X_INDEX, is_encode)
                      r  == Append(SetAt(st.result, p, ab[1]), ab[2])
                  IN  [result |-> Append(r, letter_index), last_pos |-> Len(r) + 1]
             ELSE [result   |-> Append(st.result, letter_index),
                   last_pos |-> Len(st.result) + 1]
TokStep(st, c, is_encode) ==
    IF ~IsLetterByte(c)
    THEN [st EXCEPT !.result = Append(@, c)]
    ELSE LET letter_index == TextLetterIndex(c)
             p == st.last_pos
         IN  IF p # 0 /\ st.result[p] # letter_index
             THEN \* a pair (pending, c): substitute it, nothing stays pending
                  LET ab == encode_or_decode_pair(st.result[p], letter_index, is_encode)
                  IN  [result   |-> Append(SetAt(st.result, p, ab[1]), ab[2]),
                       last_pos |-> 0]
             ELSE IF p # 0
             THEN \* a doubled letter: split it with an 'x', c becomes pending
                  LET ab == encode_or_decode_pair(st.result[p], X_INDEX, is_encode)
                      r  == Append(SetAt(st.result, p, ab[1]), ab[2])
                  IN  [result |-> Append(r, letter_index), last_pos |-> Len(r) + 1]
             ELSE [result   |-> Append(st.result, letter_index),
                   last_pos |-> Len(st.result) + 1]

RECURSIVE TokRun(_, _, _, _, _)
\* the locals after the bytes lo..hi of the text, entered with the locals st
\* (the range is halved as in KeyRun)
TokRun(st, t, lo, hi, is_encode) ==
    IF lo > hi \/ st # st THEN st
    ELSE IF lo = hi THEN TokStep(st, t[lo], is_encode)
    ELSE LET mid == (lo + hi) \div 2
         IN  TokRun(TokRun(st, t, lo, mid, is_encode), t, mid + 1, hi, is_encode)

\* the locals after the first n bytes of the text
TokLoop(t, n, is_encode) == TokRun(TokInit, t, 1, n, is_encode)

\* `if let Some(pos) = last_pos` after the loop
\* variant: a trailing letter is left as it is
TokFinishNoFiller(st, is_encode) == st.result
TokFinish(st, is_encode) ==
    IF st.last_pos # 0
    THEN LET ab == encode_or_decode_pair(st.result[st.last_pos], X_INDEX, is_encode)
         IN  Append(SetAt(st.result, st.last_pos, ab[1]), ab[2])
    ELSE st.result

\* the byte vector handed to String::from_utf8
ResultBytes(t, is_encode) == TokFinish(TokLoop(t, Len(t), is_encode), is_encode)

----------------------------------------------------------------------------
(* String::from_utf8 and the public calls *)

\* the decoder's state between characters: no continuation byte is awaited
Utf8Start == [ok |-> TRUE, need |-> 0, lo |-> 128, hi |-> 191]

\* one byte of the UTF-8 decoder: `need` continuation bytes are awaited, the
\* next of them within lo..hi
Utf8Step(u, b) ==
    IF ~u.ok THEN u
    ELSE IF u.need > 0
    THEN IF b \in u.lo..u.hi THEN [ok |-> TRUE, need |-> u.need - 1, lo |-> 128, hi |-> 191]
                             ELSE [u EXCEPT !.ok = FALSE]
    ELSE IF b < 128 THEN u
    ELSE IF b \in 194..223 THEN [ok |-> TRUE, need |-> 1, lo |-> 128, hi |-> 191]
    ELSE IF b = 224 THEN [ok |-> TRUE, need |-> 2, lo |-> 160, hi |-> 191]
    ELSE IF b = 237 THEN [ok |-> TRUE, need |-> 2, lo |-> 128, hi |-> 159]
    ELSE IF b \in 225..239 THEN [ok |-> TRUE, need |-> 2, lo |-> 128, hi |-> 191]
    ELSE IF b = 240 THEN [ok |-> TRUE, need |-> 3, lo |-> 144, hi |-> 191]
    ELSE IF b \in 241..243 THEN [ok |-> TRUE, need |-> 3, lo |-> 128, hi |-> 191]
    ELSE IF b = 244 THEN [ok |-> TRUE, need |-> 3, lo |-> 128, hi |-> 143]
    ELSE [u EXCEPT !.ok = FALSE]

RECURSIVE Utf8Run(_, _, _, _)
\* the decoder's state after the bytes lo..hi of v (the range is halved as in KeyRun)
Utf8Run(u, v, lo, hi) ==
    IF lo > hi \/ u # u THEN u
    ELSE IF lo = hi THEN Utf8Step(u, v[lo])
    ELSE LET mid == (lo + hi) \div 2 IN Utf8Run(Utf8Run(u, v, lo, mid), v, mid + 1, hi)

\* whether v is well-formed UTF-8
Utf8Valid(v) == LET u == Utf8Run(Utf8Start, v, 1, Len(v)) IN u.ok /\ u.need = 0

\* String::from_utf8(result): Ok(String) when the bytes are UTF-8, else Err
from_utf8(v) == [ok |-> Utf8Valid(v), bytes |-> v]

encode_or_decode(t, is_encode) == from_utf8(ResultBytes(t, is_encode))
encode(t) == encode_or_decode(t, TRUE)
decode(t) == encode_or_decode(t, FALSE)

----------------------------------------------------------------------------
(* The inputs the model draws from. *)

\* "" and the keys the repository uses, plus a key that names every letter
\* "playfair example"
KeyPlayfairExample == <<112, 108, 97, 121, 102, 97, 105, 114, 32, 101, 120, 97, 109, 112, 108, 101>>
\* "gravity falls"
KeyGravityFalls == <<103, 114, 97, 118, 105, 116, 121, 32, 102, 97, 108, 108, 115>>
\* "Hello Playfair Cipher"
KeyHello == <<72, 101, 108, 108, 111, 32, 80, 108, 97, 121, 102, 97, 105, 114, 32, 67, 105, 112, 104, 101, 114>>
\* "my own little secret"
KeyMain == <<109, 121, 32, 111, 119, 110, 32, 108, 105, 116, 116, 108, 101, 32, 115, 101, 99, 114, 101, 116>>
\* "zyxwvutsrqponmlkjihgfedcba"
KeyAllLetters == <<122, 121, 120, 119, 118, 117, 116, 115, 114, 113, 112, 111, 110, 109, 108, 107, 106, 105, 104, 103, 102, 101, 100, 99, 98, 97>>
\* "jig{@A": letters, bytes above 'z', below 'a', uppercase
KeyMixed == <<106, 105, 103, 123, 64, 65>>

FixedKeys == {<<>>, KeyPlayfairExample, KeyGravityFalls, KeyHello, KeyMain,
              KeyAllLetters, KeyMixed}

\* the bytes generated keys are made of: 'i', 'j'
KeyBytes == {LowerI, LowerJ}

RECURSIVE SeqsOfLen(_, _)
\* the sequences of n elements of S
SeqsOfLen(S, n) ==
    IF n = 0 THEN {<<>>} ELSE {<<x>> \o r : x \in S, r \in SeqsOfLen(S, n - 1)}

Keys == FixedKeys \cup UNION {SeqsOfLen(KeyBytes, n) : n \in 0..MaxKeyLen}

\* the characters generated texts are made of: 'a', 'i', 'j', 'x', ' ', U+00E9
Chars == {<<LowerA>>, <<LowerI>>, <<LowerJ>>, <<LowerX>>, <<32>>, <<195, 169>>}

RECURSIVE CharSeqsOfLen(_)
\* the texts of n characters
CharSeqsOfLen(n) ==
    IF n = 0 THEN {<<>>} ELSE {c \o r : c \in Chars, r \in CharSeqsOfLen(n - 1)}

\* "This is a test."
TextSimple == <<84, 104, 105, 115, 32, 105, 115, 32, 97, 32, 116, 101, 115, 116, 46>>
\* "hide the gold in the tree stump"
TextWikipedia == <<104, 105, 100, 101, 32, 116, 104, 101, 32, 103, 111, 108, 100, 32, 105, 110, 32, 116, 104, 101, 32, 116, 114, 101, 101, 32, 115, 116, 117, 109, 112>>
\* "bmod zbx dnab ek udm uixmm ouvif"
CipherWikipedia == <<98, 109, 111, 100, 32, 122, 98, 120, 32, 100, 110, 97, 98, 32, 101, 107, 32, 117, 100, 109, 32, 117, 105, 120, 109, 109, 32, 111, 117, 118, 105, 102>>
\* "attack at dawn"
TextAttack == <<97, 116, 116, 97, 99, 107, 32, 97, 116, 32, 100, 97, 119, 110>>
\* "gffgbm gf nfaw"
CipherAttack == <<103, 102, 102, 103, 98, 109, 32, 103, 102, 32, 110, 102, 97, 119>>

FixedTexts == {TextSimple, TextWikipedia, CipherWikipedia, TextAttack, CipherAttack}

\* the letters generated letters-only texts are made of: 'a', 't', 'x'
TextLetters == {LowerA, 116, LowerX}

\* texts of letters only, long enough for two pairs and a doubled letter
\* that straddles them ("atta")
LetterTexts == UNION {SeqsOfLen(TextLetters, n) : n \in 0..MaxLetters}

\* letters-only texts of several pairs: "attack" (the "tt" straddles two
\* pairs), "playfair", "hidethegoldinthe", and the odd "hidethegold"
TextAttackWord == <<97, 116, 116, 97, 99, 107>>
TextPlayfairWord == <<112, 108, 97, 121, 102, 97, 105, 114>>
TextHideEven == <<104, 105, 100, 101, 116, 104, 101, 103, 111, 108, 100, 105, 110, 116, 104, 101>>
TextHideOdd == <<104, 105, 100, 101, 116, 104, 101, 103, 111, 108, 100>>

Texts == FixedTexts \cup UNION {CharSeqsOfLen(n) : n \in 0..MaxLen} \cup LetterTexts
            \cup {TextAttackWord, TextPlayfairWord, TextHideEven, TextHideOdd}

----------------------------------------------------------------------------
(* The engine in use: new(key) has returned, then one call is made on the  *)
(* engine; encode and decode are pure functions of the square and the text,*)
(* so every call starts from the same state.                               *)

Idle == /\ op = "none" /\ plain = <<>> /\ text = <<>> /\ result = [ok |-> TRUE, bytes |-> <<>>]
        /\ pa = 0 /\ pb = 0 /\ pout = <<>>

Init == /\ key \in Keys
        /\ positions = new(key).positions
        /\ letters = new(key).letters
        /\ phase = "ready"
        /\ pos = <<6, 1>>
        /\ idx = 25
        /\ Idle

\* cipher.encode(t)
Encode(t) == /\ phase = "ready" /\ op = "none"
             /\ op' = "encode"
             /\ text' = t
             /\ result' = encode(t)
             /\ UNCHANGED <<key, positions, letters, phase, pos, idx, plain, pa, pb, pout>>

\* cipher.decode(t)
Decode(t) == /\ phase = "ready" /\ op = "none"
             /\ op' = "decode"
             /\ text' = t
             /\ result' = decode(t)
             /\ UNCHANGED <<key, positions, letters, phase, pos, idx, plain, pa, pb, pout>>

\* let b = cipher.encode(a).unwrap(); let c = cipher.decode(&b).unwrap();
DecodeEncoded == /\ phase = "ready" /\ op = "encode" /\ result.ok
                 /\ op' = "roundtrip"
                 /\ plain' = text
                 /\ text' = result.bytes
                 /\ result' = decode(result.bytes)
                 /\ UNCHANGED <<key, positions, letters, phase, pos, idx, pa, pb, pout>>

Next == \/ \E t \in Texts : Encode(t)
        \/ \E t \in Texts : Decode(t)
        \/ DecodeEncoded

Spec == Init /\ [][Next]_vars

----------------------------------------------------------------------------
(* One substitution: self.encode_or_decode_pair(a, b, is_encode) on the    *)
(* built engine, for any two alphabet indices.                             *)

PairCall(a, b, is_encode) ==
    /\ phase = "ready" /\ op = "none"
    /\ op' = IF is_encode THEN "pair_encode" ELSE "pair_decode"
    /\ pa' = a
    /\ pb' = b
    /\ pout' = encode_or_decode_pair(a, b, is_encode)
    /\ UNCHANGED <<key, positions, letters, phase, pos, idx, plain, text, result>>

NextPair == \E a \in 0..24, b \in 0..24, is_encode \in BOOLEAN : PairCall(a, b, is_encode)

SpecPair == Init /\ [][NextPair]_vars

----------------------------------------------------------------------------
(* new(key), one loop iteration at a time.                                 *)

InitNew == /\ key \in Keys
           /\ positions = NewInit.positions
           /\ letters = NewInit.letters
           /\ pos = NewInit.pos
           /\ phase = "key"
           /\ idx = 0
           /\ Idle

\* the locals of new() as a record
Locals == [positions |-> positions, letters |-> letters, pos |-> pos]

\* one iteration of `for &letter in key.as_bytes()`
KeyIter == /\ phase = "key" /\ idx < Len(key)
           /\ LET st == KeyStep(Locals, key[idx + 1]) IN
                /\ positions' = st.positions
                /\ letters' = st.letters
                /\ pos' = st.pos
           /\ idx' = idx + 1
           /\ UNCHANGED <<key, phase, op, plain, text, result, pa, pb, pout>>

\* the first loop ends
KeyLoopExit == /\ phase = "key" /\ idx = Len(key)
               /\ phase' = "fill"
               /\ idx' = 0
               /\ UNCHANGED <<key, positions, letters, pos, op, plain, text, result, pa, pb, pout>>

\* one iteration of `for (letter_index, position) in positions.iter_mut().enumerate()`
FillIter == /\ phase = "fill" /\ idx < 25
            /\ LET st == FillStep(Locals, idx) IN
                 /\ positions' = st.positions
                 /\ letters' = st.letters
                 /\ pos' = st.pos
            /\ idx' = idx + 1
            /\ UNCHANGED <<key, phase, op, plain, text, result, pa, pb, pout>>

\* the two border loops and the return
BorderFill == /\ phase = "fill" /\ idx = 25
              /\ letters' = Border(letters)
              /\ phase' = "ready"
              /\ UNCHANGED <<key, positions, pos, idx, op, plain, text, result, pa, pb, pout>>

NextNew == KeyIter \/ KeyLoopExit \/ FillIter \/ BorderFill

SpecNew == InitNew /\ [][NextNew]_vars

----------------------------------------------------------------------------
(* Notions the properties are stated with. *)

\* a lowercase ASCII letter a-z
IsLower(b) == b \in LowerA..LowerZ
NotLower(b) == ~IsLower(b)

\* how many bytes of v are lowercase letters
LowerCount(v) == Len(SelectSeq(v, IsLower))

\* n rounded up to the nearest even number
RoundUpEven(n) == n + (n % 2)

\* the direction of the last encode/decode call
LastIsEncode == op = "encode"

\* an encode or decode call has returned
Called == op \in {"encode", "decode", "roundtrip"}

\* the canonical letter of an alphabet index (0 -> 'a', 8 -> 'i', 9 -> 'k', 24 -> 'z')
CanonLetter(i) == IF i <= 8 THEN LowerA + i ELSE LowerA + i + 1

\* the encoded positions of the 5x5 interior
Interior == {r * 8 + c : r \in 1..5, c \in 1..5}

\* t with every 'j' replaced by 'i'
JtoI(t) == [n \in 1..Len(t) |-> IF t[n] = LowerJ THEN LowerI ELSE t[n]]

(* The pair grouping as the specification words it: one pass that holds at *)
(* most one pending first letter `pend` (-1: none) and the non-letter      *)
(* bytes `gap` met since it; a pair is emitted whole, first letter, gap,   *)
(* second letter. It counts the pairs, the doubled letters split by a      *)
(* filler, and the pairs (filler, filler).                                 *)
RefStart == [out |-> <<>>, pend |-> -1, gap |-> <<>>, pairs |-> 0, splits |-> 0, xx |-> 0]

RefEmit(r, b, is_encode) ==
    LET s == encode_or_decode_pair(r.pend, b, is_encode) IN
    [r EXCEPT !.out = (@ \o <<s[1]>>) \o (r.gap \o <<s[2]>>),
              !.gap = <<>>,
              !.pairs = @ + 1,
              !.xx = @ + (IF r.pend = X_INDEX /\ b = X_INDEX THEN 1 ELSE 0)]

RefStep(r, c, is_encode) ==
    IF ~IsLower(c)
    THEN IF r.pend = -1 THEN [r EXCEPT !.out = Append(@, c)]
                        ELSE [r EXCEPT !.gap = Append(@, c)]
    ELSE LET b == IF c >= LowerJ THEN c - LowerA - 1 ELSE c - LowerA IN
         IF r.pend = -1 THEN [r EXCEPT !.pend = b]
         ELSE IF r.pend # b THEN [RefEmit(r, b, is_encode) EXCEPT !.pend = -1]
         ELSE [RefEmit(r, X_INDEX, is_encode) EXCEPT !.pend = b, !.splits = @ + 1]

RECURSIVE RefRun(_, _, _, _, _)
RefRun(r, t, lo, hi, is_encode) ==
    IF lo > hi \/ r # r THEN r
    ELSE IF lo = hi THEN RefStep(r, t[lo], is_encode)
    ELSE LET mid == (lo + hi) \div 2
         IN  RefRun(RefRun(r, t, lo, mid, is_encode), t, mid + 1, hi, is_encode)

\* the grouping of a whole text: a letter still pending at the end is paired
\* with the filler
Ref(t, is_encode) ==
    LET r == RefRun(RefStart, t, 1, Len(t), is_encode) IN
    IF r.pend = -1 THEN r ELSE [RefEmit(r, X_INDEX, is_encode) EXCEPT !.pend = -1]

\* the indices of `result` at which the loop pushed a copied non-letter byte
CopiedAt(t, is_encode) ==
    {Len(TokLoop(t, n - 1, is_encode).result) + 1 :
        n \in {m \in 1..Len(t) : ~IsLetterByte(t[m])}}

\* the classical Playfair rules on (row, col) with explicit modulo-5 steps,
\* read off `positions` alone
Row(i) == positions[i] \div 8
Col(i) == positions[i] % 8
LetterAt(r, c) == CanonLetter(CHOOSE i \in 0..24 : positions[i] = r * 8 + c)
StepFwd(n) == (n % 5) + 1
StepBack(n) == ((n + 3) % 5) + 1
Classical(a, b, is_encode) ==
    IF Col(a) = Col(b)
    THEN IF is_encode THEN <<LetterAt(StepFwd(Row(a)), Col(a)), LetterAt(StepFwd(Row(b)), Col(b))>>
                      ELSE <<LetterAt(StepBack(Row(a)), Col(a)), LetterAt(StepBack(Row(b)), Col(b))>>
    ELSE IF Row(a) = Row(b)
    THEN IF is_encode THEN <<LetterAt(Row(a), StepFwd(Col(a))), LetterAt(Row(b), StepFwd(Col(b)))>>
                      ELSE <<LetterAt(Row(a), StepBack(Col(a))), LetterAt(Row(b), StepBack(Col(b)))>>
    ELSE <<LetterAt(Row(a), Col(b)), LetterAt(Row(b), Col(a))>>

----------------------------------------------------------------------------
(* The repository's test vectors, reproduced by the model. *)

VectorsHold ==
    /\ (key = KeyPlayfairExample /\ op = "encode" /\ text = TextWikipedia)
          => result = [ok |-> TRUE, bytes |-> CipherWikipedia]
    /\ (key = KeyGravityFalls /\ op = "encode" /\ text = TextAttack)
          => result = [ok |-> TRUE, bytes |-> CipherAttack]
    /\ (key = KeyHello /\ op = "roundtrip" /\ plain = TextSimple)
          => result = [ok |-> TRUE, bytes |-> TextSimple]

\* the stepwise construction ends in the square new(key) returns
StepwiseIsNew ==
    (phase = "ready") => (positions = new(key).positions /\ letters = new(key).letters)

----------------------------------------------------------------------------
(* The claims. *)

\* a plaintext of lowercase letters only, without 'j', in which no doubled
\* letter makes the tokenizer insert a filler
PlainLettersOnly(t) ==
    /\ \A n \in 1..Len(t) : IsLower(t[n]) /\ t[n] # LowerJ
    /\ Ref(t, TRUE).splits = 0

\* t has no 'x'
NoX(t) == \A n \in 1..Len(t) : t[n] # LowerX

\* C1 as stated: for every key and every text of lowercase letters a-z with no
\* 'j' and no doubled letter split by a filler, decode(encode(text)) = text.
C1_RoundTripAsStated ==
    (op = "roundtrip" /\ PlainLettersOnly(plain)) => result.bytes = plain

\* C1 amended: for every key and every text of lowercase letters a-z with no
\* 'j', no doubled letter split by a filler and an even number of letters,
\* decode(encode(text)) = text.
C1_RoundTripEven ==
    (op = "roundtrip" /\ PlainLettersOnly(plain) /\ Len(plain) % 2 = 0)
        => result = [ok |-> TRUE, bytes |-> plain]

\* C1 witness: a text of two pairs whose second and third letters are the
\* same (the doubled letter straddles the pairs and gets no filler) has been
\* encoded to something else and decoded back
C1_Witness ==
    /\ op = "roundtrip" /\ PlainLettersOnly(plain) /\ Len(plain) = 4
    /\ plain[2] = plain[3]
    /\ Ref(plain, TRUE).pairs = 2
    /\ Len(text) = 4 /\ text # plain /\ result.bytes = plain

\* what becomes of an odd text: when its last letter is not 'x' it comes back
\* with the filler 'x' appended; when it is 'x', with the bytes 22, 22 in
\* place of that 'x'
OddTextRoundTrip ==
    (op = "roundtrip" /\ PlainLettersOnly(plain) /\ Len(plain) % 2 = 1) =>
        IF plain[Len(plain)] # LowerX
        THEN result.bytes = Append(plain, LowerX)
        ELSE result.bytes = SubSeq(plain, 1, Len(plain) - 1) \o <<X_INDEX, X_INDEX>>

\* C2 as stated: with the key "Hello Playfair Cipher", decode(encode(p)) = p
\* for any plaintext p (read here on the plaintexts without 'x', where the
\* filler paired with itself plays no part).
C2_HelloRoundTripAsStated ==
    (key = KeyHello /\ op = "roundtrip" /\ NoX(plain)) => result.bytes = plain

\* C2 amended: with the key "Hello Playfair Cipher", decode(encode(p)) = p for
\* any plaintext p whose lowercase letters are even in number, contain no 'j'
\* and no doubled letter split by a filler; its other bytes are arbitrary.
C2_HelloRoundTripEven ==
    (/\ key = KeyHello /\ op = "roundtrip"
     /\ \A n \in 1..Len(plain) : plain[n] # LowerJ
     /\ Ref(plain, TRUE).splits = 0
     /\ LowerCount(plain) % 2 = 0)
        => result = [ok |-> TRUE, bytes |-> plain]

\* C2 witness: the doc example, "This is a test." encoded and decoded back
C2_Witness ==
    /\ key = KeyHello /\ op = "roundtrip" /\ plain = TextSimple
    /\ text # plain /\ result.bytes = plain

\* C3 as stated: the number of lowercase letters in encode's output is even
\* and equals the input's number of lowercase letters rounded up to even
\* (read here on the texts without 'x', where the filler paired with itself
\* plays no part).
C3_LengthAsStated ==
    (op = "encode" /\ NoX(text)) =>
        /\ LowerCount(result.bytes) % 2 = 0
        /\ LowerCount(result.bytes) = RoundUpEven(LowerCount(text))

\* C3 amended: the number of lowercase letters in encode's output is even; the
\* number of bytes encode writes for the letters (the output's length less the
\* input's non-letter bytes) is even, at least the input's letter count
\* rounded up to even and at most twice the input's letter count; and when no
\* doubled letter is split by a filler and no 'x' is paired with the filler,
\* the output's letter count equals the input's rounded up to even.
C3_LengthAmended ==
    (op = "encode") =>
        LET n == LowerCount(text)
            written == Len(result.bytes) - (Len(text) - n)
            g == Ref(text, TRUE)
        IN  /\ LowerCount(result.bytes) % 2 = 0
            /\ written % 2 = 0
            /\ RoundUpEven(n) <= written /\ written <= 2 * n
            /\ (g.splits = 0 /\ g.xx = 0) => LowerCount(result.bytes) = RoundUpEven(n)

\* C3 witness: an odd number of letters, padded by one trailing filler
C3_Witness ==
    /\ op = "encode" /\ LowerCount(text) = 3 /\ Ref(text, TRUE).splits = 0
    /\ LowerCount(result.bytes) = 4

\* C4 as stated: for encode and decode, the output's bytes that are not
\* lowercase letters are, in order, the input's bytes that are not lowercase
\* letters.
C4_PassthroughAsStated ==
    Called => SelectSeq(result.bytes, NotLower) = SelectSeq(text, NotLower)

\* C5: while new(key) runs, every assigned index holds a position of the 5x5
\* interior, no two indices share one, and the cursor is inside the interior
\* whenever an index is still to be assigned; when new returns, positions maps
\* 0..24 one-to-one onto the 25 interior positions.
C5_KeySquareBijective ==
    LET assigned == {i \in 0..24 : positions[i] # UNASSIGNED} IN
    /\ \A i \in assigned : positions[i] \in Interior
    /\ \A i, j \in assigned : positions[i] = positions[j] => i = j
    /\ (phase \in {"key", "fill"} /\ assigned # 0..24)
          => (pos[1] \in 1..5 /\ pos[2] \in 1..5)
    /\ (phase \in {"fill", "ready"} /\ idx = 25)
          => (assigned = 0..24 /\ {positions[i] : i \in 0..24} = Interior)

\* C5 witness: new has returned for a key with repeated letters, 'i' and 'j',
\* uppercase and non-letter bytes
C5_Witness ==
    /\ phase = "ready" /\ key = KeyMixed
    /\ {positions[i] : i \in 0..24} = Interior

\* C6: encode(text) equals encode(text with every 'j' replaced by 'i'), the key
\* with every 'j' replaced by 'i' builds the same square, and the I/J cell of
\* the square stores 'i'.
C6_IJMerge ==
    /\ (op = "encode") => result = encode(JtoI(text))
    /\ new(JtoI(key)) = [positions |-> positions, letters |-> letters]
    /\ letters[positions[IJ_INDEX]] = LowerI

\* C6 witness: a text with a 'j' was encoded by an engine whose key has a 'j'
\* before any 'i'
C6_Witness ==
    /\ op = "encode"
    /\ \E n \in 1..Len(text) : text[n] = LowerJ
    /\ key # <<>> /\ key[1] = LowerJ
    /\ \A n \in 1..Len(result.bytes) : result.bytes[n] # LowerJ

\* C7 as stated: every byte encode or decode writes as a substitution output
\* (every output byte that is not a copied non-letter byte) is a lowercase
\* letter other than 'j', also when the filler is paired with itself.
C7_SubstitutionLettersAsStated ==
    Called =>
        \A n \in (1..Len(result.bytes)) \ CopiedAt(text, LastIsEncode) :
            IsLower(result.bytes[n]) /\ result.bytes[n] # LowerJ

\* C8: for every key and every valid text, encode and decode return Ok.
C8_AlwaysOk ==
    Called => (Utf8Valid(text) /\ result.ok)

\* C8 witness: a letter pair was substituted across a two-byte character
C8_Witness ==
    /\ op = "encode" /\ result.ok
    /\ \E n \in 2..(Len(text) - 2) :
          /\ IsLower(text[n - 1]) /\ text[n] = 195 /\ text[n + 1] = 169 /\ IsLower(text[n + 2])
          /\ text[n - 1] # text[n + 2]

\* C9: for two distinct alphabet indices, encode_or_decode_pair returns the
\* letters of the classical rules computed with modulo-5 steps; no lookup
\* leaves the table or reads an unfilled cell (an unfilled cell holds 0).
C9_PairIsClassical ==
    (op \in {"pair_encode", "pair_decode"} /\ pa # pb) =>
        /\ pout = Classical(pa, pb, op = "pair_encode")
        /\ \A n \in 1..2 : IsLower(pout[n])

\* C9 witness: an encode of two letters of one column, one of them in row 5
C9_Witness ==
    /\ op = "pair_encode" /\ pa # pb
    /\ Col(pa) = Col(pb) /\ Row(pa) = 5
    /\ pout[1] = LetterAt(1, Col(pa))

\* C10: the output of encode and decode is the grouping of the single pass
\* with one pending letter: pairs in order across non-letter bytes, a doubled
\* letter within a pair split by the filler, a doubled letter straddling two
\* pairs not, a trailing letter paired with the filler; every pair writes two
\* bytes.
C10_PairGrouping ==
    Called =>
        LET g == Ref(text, LastIsEncode) IN
        /\ result.bytes = g.out
        /\ Len(result.bytes) = (Len(text) - LowerCount(text)) + 2 * g.pairs

\* C10 witness: "hide the gold in the tree stump" encoded: pairs are made
\* across the spaces, the "ee" of "tree" falls inside a pair and is split by
\* the filler, and the 13 pairs give the expected ciphertext
C10_Witness ==
    /\ op = "encode" /\ key = KeyPlayfairExample /\ text = TextWikipedia
    /\ Ref(text, TRUE).splits = 1
    /\ Ref(text, TRUE).pairs = 13
    /\ result.bytes = CipherWikipedia

====
